---- MODULE Spec2Model ----
(***************************************************************************)
(* Connection / session orchestration layer of the chat backend:           *)
(* ConnectionManager (backend/app/core/ws_manager.py), the receive loop    *)
(* (backend/app/api/ws_endpoint.py), the persistence gateway               *)
(* (backend/app/models/models.py, github_model.py) and the shared agent    *)
(* service (backend/app/services/ai_service.py).                           *)
(*                                                                         *)
(* One step of a session is the code between two suspension points: a      *)
(* collaborator call (persistence, repository host, agent) followed by the *)
(* synchronous code and the sends up to the next collaborator call.        *)
(***************************************************************************)
EXTENDS Integers, Sequences, FiniteSets, TLC

\* ---------------------------------------------------------------- bounds
MaxFrames == 2
MaxIds == 3
MaxBatch == 2
MaxFaults == 1

\* ------------------------------------------------------------ value sets
Clients == {"c1", "c2"}
Names == {"A", "B"}
Branches == {"main", "dev"}
NoId == 0
NoConfig == "none"

\* the geminiToken a client puts in its SUBMIT_CONFIG payload
GeminiTokenOf(c) == IF c = "c1" THEN "g1" ELSE "g2"

\* repository descriptors as they arrive in payloads (id NoId = key absent);
\* the second client registers a single display name and branch, the one
\* the first client can register too; only name "A" comes with both branches
NamesOf(c) == IF c = "c1" THEN Names ELSE {"A"}
BranchesOf(c) == IF c = "c1" THEN Branches ELSE {"main"}
Descriptors(c, ids) ==
    {d \in [id : ids, name : NamesOf(c), branch : BranchesOf(c), token : {"tok"}] :
        d.name # "A" => d.branch = "main"}

RECURSIVE SeqsUpTo(_, _)
SeqsUpTo(S, n) ==
    IF n = 0 THEN {<<>>}
    ELSE LET shorter == SeqsUpTo(S, n - 1)
         IN shorter \cup {Append(s, x) : s \in {t \in shorter : Len(t) = n - 1}, x \in S}

\* ------------------------------------------------------------------ state
VARIABLES
    active_connections,     \* ConnectionManager.active_connections (its keys)
    selected_repositories,  \* ConnectionManager.selected_repositories (NoId = no entry)
    ai_key,                 \* ConnectionManager.ai_service.api_key (one shared service)
    transport,              \* the websocket of each session
    connections,            \* collection db.connections
    repositories,           \* collection db.repositories, in natural order
    messages,               \* collection db.messages
    pending_remove,         \* tasks created by asyncio.create_task(db.remove_connection)
    pc,                     \* position of each session's endpoint coroutine
    frame,                  \* the frame of the current exchange
    loc,                    \* local variables of the running handler
    sent,                   \* events delivered to the client in the current exchange
    recvd,                  \* frames each session's loop received since the initial state
    nextId,                 \* the next value uuid.uuid4() yields in a session's handlers
    submitted,              \* the geminiToken of the session's latest SUBMIT_CONFIG
    faults,                 \* persistence calls that have failed so far
    branch_head,            \* repository host: the commits of each branch, oldest first
    git_objects,            \* repository host: kinds of git objects created so far
    issues,                 \* collection db.issues (mirror)
    pull_requests           \* collection db.pull_requests (mirror)

vars == <<active_connections, selected_repositories, ai_key, transport, connections,
          repositories, messages, pending_remove, pc, frame, loc, sent, recvd,
          nextId, submitted, faults, branch_head, git_objects, issues, pull_requests>>

\* the repository host and the mirror collections: the GitHub handlers' state
hostVars == <<branch_head, git_objects, issues, pull_requests>>

\* -------------------------------------------------------------- envelopes
NoFrame == [type |-> "NONE", text |-> "", repository_id |-> NoId,
            repository |-> <<>>, geminiToken |-> "", repositories |-> <<>>,
            files |-> <<>>, commit_message |-> "", branch |-> ""]

NoLoc == [repos |-> <<>>, repo |-> <<>>, repository |-> <<>>, fid |-> NoId,
          ret |-> "none", i |-> 0, ctxRepo |-> <<>>, config |-> NoConfig,
          is_valid |-> FALSE, items |-> <<>>]

Typing(b) == [type |-> "AGENT_TYPING", isTyping |-> b]
NewChatMessage(m) == [type |-> "NEW_CHAT_MESSAGE", payload |-> m]
RepositoriesList(rs) == [type |-> "REPOSITORIES_LIST", repositories |-> rs]
RepoActionSuccess(r, a) == [type |-> "REPOSITORY_ACTION_SUCCESS", action |-> a, repository |-> r]
RepoActionSuccessId(id, a) == [type |-> "REPOSITORY_ACTION_SUCCESS", action |-> a, repository_id |-> id]
RepoActionError(m) == [type |-> "REPOSITORY_ACTION_ERROR", message |-> m]
FileTreeError(m) == [type |-> "FILE_TREE_ERROR", message |-> m]
FileTreeData(t, r) == [type |-> "FILE_TREE_DATA", tree |-> t, repository |-> r]
ConfigSuccess == [type |-> "CONFIG_SUCCESS"]
ConfigError(m) == [type |-> "CONFIG_ERROR", message |-> m]
Pong == [type |-> "PONG"]
GithubActionError(m) == [type |-> "GITHUB_ACTION_ERROR", message |-> m]
GithubFileActionSuccess(result, id, a) ==
    [type |-> "GITHUB_FILE_ACTION_SUCCESS", result |-> result, repository_id |-> id, action |-> a]
GithubIssuesList(items, id) ==
    [type |-> "GITHUB_ISSUES_LIST", issues |-> items, repository_id |-> id]
GithubBranchesList(items, id) ==
    [type |-> "GITHUB_BRANCHES_LIST", branches |-> items, repository_id |-> id]
GithubPullRequestsList(items, id) ==
    [type |-> "GITHUB_PULL_REQUESTS_LIST", pull_requests |-> items, repository_id |-> id]

\* ------------------------------------------------------------ persistence
\* outcomes of one persistence call: TRUE = it worked, FALSE = it raised
DbOutcomes == IF faults < MaxFaults THEN BOOLEAN ELSE {TRUE}

\* the call's outcome is counted
Db(ok) == faults' = IF ok THEN faults ELSE faults + 1

\* GitHubModel.add_repository: the document it builds from the payload
RepoDoc(c, d) ==
    [client_id |-> c,
     id |-> IF d.id # NoId THEN d.id ELSE nextId[c],
     name |-> d.name, branch |-> d.branch, token |-> d.token]

PopToken_keep(doc) == doc

\* a document with the token key popped
PopToken(doc) == [k \in DOMAIN doc \ {"token"} |-> doc[k]]

MatchesName_anyClient(doc, c, name) == doc.name = name

\* update_one({"client_id", "name"}, {"$set": repo}, upsert=True)
MatchesName(doc, c, name) == doc.client_id = c /\ doc.name = name

Upsert_insert(coll, doc) == Append(coll, doc)

Upsert(coll, doc) ==
    IF \E k \in 1..Len(coll) : MatchesName(coll[k], doc.client_id, doc.name)
    THEN LET k == CHOOSE j \in 1..Len(coll) :
                      /\ MatchesName(coll[j], doc.client_id, doc.name)
                      /\ \A h \in 1..(j - 1) : ~MatchesName(coll[h], doc.client_id, doc.name)
         IN [coll EXCEPT ![k] = doc]
    ELSE Append(coll, doc)

\* GitHubModel.get_repositories: find({"client_id"}), token popped
OwnedBy(doc, c) == doc.client_id = c

ClientDocs(coll, c) == SelectSeq(coll, LAMBDA doc : OwnedBy(doc, c))

get_repositories(coll, c) ==
    LET docs == ClientDocs(coll, c)
    IN [k \in 1..Len(docs) |-> PopToken(docs[k])]

\* GitHubModel.get_repository: find_one({"client_id", "id"}), token kept;
\* <<>> is None
get_repository(coll, c, id) ==
    LET hits == SelectSeq(coll, LAMBDA doc : doc.client_id = c /\ doc.id = id)
    IN IF hits = <<>> THEN <<>> ELSE <<hits[1]>>

\* delete_one({"client_id", "id"})
delete_one(coll, c, id) ==
    IF \E k \in 1..Len(coll) : coll[k].client_id = c /\ coll[k].id = id
    THEN LET k == CHOOSE j \in 1..Len(coll) :
                      /\ coll[j].client_id = c /\ coll[j].id = id
                      /\ \A h \in 1..(j - 1) : ~(coll[h].client_id = c /\ coll[h].id = id)
         IN [j \in 1..(Len(coll) - 1) |-> IF j < k THEN coll[j] ELSE coll[j + 1]]
    ELSE coll

\* MongoDB.add_message: the message document
Message(c, sender, text) == [client_id |-> c, sender |-> sender, text |-> text]

\* the methods class MongoDB defines; any other attribute raises AttributeError
MongoDB_methods == {"add_connection", "remove_connection", "update_connection_config",
                    "get_connection_config", "add_message", "get_messages"}

\* ------------------------------------------------------------- transport
\* send_personal_message: the event reaches the client only through a live
\* entry of active_connections whose websocket is still open
Delivers(c) == c \in active_connections /\ transport[c] = "open"

\* send_json on a websocket the client has left raises in some server stacks
Raises(c) == c \in active_connections /\ transport[c] = "closed_raise"

Deliver(c, evs) == IF Delivers(c) THEN sent[c] \o evs ELSE sent[c]

FileTreeRepo_whole(doc) == doc

\* the repository block handle_fetch_files puts in FILE_TREE_DATA
FileTreeRepo(doc) == [id |-> doc.id, name |-> doc.name, branch |-> doc.branch]

\* what the repository host lists for a descriptor's branch
TreeOf(doc) == <<doc.name, doc.branch>>

\* code that runs after handle_fetch_files returns to its caller
Cont(ret) == IF ret = "submit" THEN <<ConfigSuccess>> ELSE <<>>

InHandler(c) == pc[c] \notin {"absent", "new", "co_db", "recv", "closed"}

RECURSIVE SumRecvd(_)
SumRecvd(S) == IF S = {} THEN 0
               ELSE LET c == CHOOSE x \in S : TRUE IN recvd[c] + SumRecvd(S \ {c})

LoopReady_spawn(c) == pc[c] \notin {"absent", "new", "co_db", "closed"}

\* the loop is back at `await websocket.receive_text()`
LoopReady(c) == pc[c] = "recv"

\* a frame can be taken from the transport; the client sends its next frame
\* after it has read the events of a finished exchange
CanReceive(c) ==
    /\ LoopReady(c)
    /\ transport[c] = "open"
    /\ pc[c] = "recv" => frame[c] = NoFrame
    /\ SumRecvd(Clients) < MaxFrames

\* ids a client can name in a payload: the ones it has been given so far
KnownIds(c) == 1..(nextId[c] - 1)

\* an id no repository was ever given
UnknownId == MaxIds + 1

\* repository_id of a GitHub payload: absent, unknown, or one the client was given
PayloadIds(c) == {NoId, UnknownId} \cup KnownIds(c)

\* ------------------------------------------------------------------- init
InitWith(guests, faults0) ==
    /\ active_connections = {}
    /\ selected_repositories = [c \in Clients |-> NoId]
    /\ ai_key = ""
    /\ transport = [c \in Clients |-> "none"]
    /\ connections = [c \in Clients |-> [exists |-> FALSE, active |-> FALSE, config |-> NoConfig]]
    /\ repositories = <<>>
    /\ messages = <<>>
    /\ pending_remove = {}
    /\ pc = [c \in Clients |-> IF c \in guests THEN "new" ELSE "absent"]
    /\ frame = [c \in Clients |-> NoFrame]
    /\ loc = [c \in Clients |-> NoLoc]
    /\ sent = [c \in Clients |-> <<>>]
    /\ recvd = [c \in Clients |-> 0]
    /\ nextId = [c \in Clients |-> 1]
    /\ submitted = [c \in Clients |-> ""]
    /\ faults = faults0
    /\ branch_head = [b \in Names \X Branches |-> <<>>]
    /\ git_objects = {}
    /\ issues = <<>>
    /\ pull_requests = <<>>

\* one client connects; persistence calls may fail
Init == InitWith({"c1"}, 0)

\* one client connects; persistence does not fail
InitReliable == InitWith({"c1"}, MaxFaults)

\* two clients connect; persistence does not fail
InitPair == InitWith(Clients, MaxFaults)

\* ------------------------------------------------- connect / disconnect
\* ConnectionManager.connect up to `await db.add_connection`
Connect(c) ==
    /\ pc[c] = "new"
    /\ transport' = [transport EXCEPT ![c] = "open"]
    /\ active_connections' = active_connections \cup {c}
    /\ pc' = [pc EXCEPT ![c] = "co_db"]
    /\ UNCHANGED <<selected_repositories, ai_key, connections, repositories, messages,
                   pending_remove, frame, loc, sent, recvd, nextId, submitted, faults,
                   hostVars>>

\* MongoDB.add_connection (upsert, swallows its own failure), then the loop starts
AddConnection(c) ==
    /\ pc[c] = "co_db"
    /\ \E ok \in DbOutcomes :
         /\ Db(ok)
         /\ connections' = IF ok
                           THEN [connections EXCEPT ![c].exists = TRUE, ![c].active = TRUE]
                           ELSE connections
    /\ pc' = [pc EXCEPT ![c] = "recv"]
    /\ UNCHANGED <<active_connections, selected_repositories, ai_key, transport, repositories,
                   messages, pending_remove, frame, loc, sent, recvd, nextId, submitted,
                   hostVars>>

\* the client goes away; the server notices at its next receive
ClientClose(c) ==
    /\ transport[c] = "open"
    /\ \E how \in {"closed_raise", "closed_drop"} :
         transport' = [transport EXCEPT ![c] = how]
    /\ sent' = [sent EXCEPT ![c] = <<>>]
    /\ UNCHANGED <<active_connections, selected_repositories, ai_key, connections, repositories,
                   messages, pending_remove, pc, frame, loc, recvd, nextId, submitted, faults,
                   hostVars>>

DropSelection_keep(c) == selected_repositories

\* `if client_id in self.selected_repositories: del ...`
DropSelection(c) == [selected_repositories EXCEPT ![c] = NoId]

disconnect_clearTable(c) ==
    /\ active_connections' = active_connections \ {c}
    /\ selected_repositories' = [d \in Clients |-> NoId]
    /\ pending_remove' = pending_remove \cup {c}

\* ConnectionManager.disconnect: both entries of c go if they are there, and
\* the task that marks the connection record inactive is created
disconnect(c) ==
    /\ active_connections' = active_connections \ {c}
    /\ selected_repositories' = DropSelection(c)
    /\ pending_remove' = pending_remove \cup {c}

\* receive_text raises WebSocketDisconnect: ConnectionManager.disconnect
Disconnect(c) ==
    /\ LoopReady(c)
    /\ transport[c] \in {"closed_raise", "closed_drop"}
    /\ disconnect(c)
    /\ pc' = [pc EXCEPT ![c] = "closed"]
    /\ UNCHANGED <<ai_key, transport, connections, repositories, messages, frame, loc, sent,
                   recvd, nextId, submitted, faults, hostVars>>

\* manager.disconnect called for an id that is not in the registry: a session
\* closed before, or one that never opened (its earlier task, if any, has run)
DisconnectAgain(c) ==
    /\ pc[c] \in {"absent", "closed"}
    /\ c \notin active_connections
    /\ c \notin pending_remove
    /\ disconnect(c)
    /\ UNCHANGED <<ai_key, transport, connections, repositories, messages, pc, frame, loc,
                   sent, recvd, nextId, submitted, faults, hostVars>>

MarkInactive_keep(conn) == conn

\* `{"$set": {"active": False}}`
MarkInactive(conn) == [conn EXCEPT !.active = FALSE]

\* the background task: MongoDB.remove_connection (update_one without upsert)
RemoveConnection(c) ==
    /\ c \in pending_remove
    /\ pending_remove' = pending_remove \ {c}
    /\ \E ok \in DbOutcomes :
         /\ Db(ok)
         /\ connections' = IF ok /\ connections[c].exists
                           THEN [connections EXCEPT ![c] = MarkInactive(@)]
                           ELSE connections
    /\ UNCHANGED <<active_connections, selected_repositories, ai_key, transport, repositories,
                   messages, pc, frame, loc, sent, recvd, nextId, submitted, faults,
                   hostVars>>

\* ------------------------------------------------------- handler plumbing
\* variables no handler step touches
envVars == <<active_connections, transport, pending_remove>>

\* `data = await websocket.receive_text()` returns frame f; the window of
\* delivered events starts again
Received(c, f) ==
    /\ CanReceive(c)
    /\ frame' = [frame EXCEPT ![c] = f]
    /\ recvd' = [recvd EXCEPT ![c] = @ + 1]

Return_propagate(c, evs) ==
    /\ sent' = [sent EXCEPT ![c] = Deliver(c, evs)]
    /\ pc' = [pc EXCEPT ![c] = IF \E i \in DOMAIN evs : "message" \in DOMAIN evs[i]
                               THEN "closed" ELSE "recv"]
    /\ loc' = [loc EXCEPT ![c] = NoLoc]

\* the handler sends evs and returns to the loop.  When the send raises, the
\* handler's except block sends its error event, which raises again, and the
\* loop's `except Exception` logs it: nothing is delivered either way.
Return(c, evs) ==
    /\ sent' = [sent EXCEPT ![c] = Deliver(c, evs)]
    /\ pc' = [pc EXCEPT ![c] = "recv"]
    /\ loc' = [loc EXCEPT ![c] = NoLoc]

\* the handler sends evs and suspends at its next collaborator call
Goto(c, evs, label, newloc) ==
    /\ sent' = [sent EXCEPT ![c] = Deliver(c, evs)]
    /\ pc' = [pc EXCEPT ![c] = label]
    /\ loc' = [loc EXCEPT ![c] = newloc]

\* first synchronous part of handle_fetch_files when called by another
\* handler with a non-empty repository id: typing-on, then get_repository
CallFetchFiles(c, evs, rid, ret) ==
    IF Raises(c) THEN Return(c, <<>>)
    ELSE Goto(c, evs \o <<Typing(TRUE)>>, "ff_get",
              [loc[c] EXCEPT !.fid = rid, !.ret = ret])

\* ------------------------------------------------------ handle_fetch_files
RecvFetchFiles(c) ==
    \E rid \in PayloadIds(c) :
       /\ Received(c, [NoFrame EXCEPT !.type = "FETCH_FILES", !.repository_id = rid])
       /\ IF rid = NoId
          THEN /\ sent' = [sent EXCEPT ![c] =
                              <<Typing(TRUE), FileTreeError("Repository ID is required")>>]
               /\ UNCHANGED <<pc, loc>>
          ELSE /\ sent' = [sent EXCEPT ![c] = <<Typing(TRUE)>>]
               /\ pc' = [pc EXCEPT ![c] = "ff_get"]
               /\ loc' = [loc EXCEPT ![c] = [NoLoc EXCEPT !.fid = rid, !.ret = "plain"]]
       /\ UNCHANGED <<selected_repositories, ai_key, connections, repositories, messages,
                      nextId, submitted, envVars, faults, hostVars>>

\* `repository = await github_model.get_repository(...)` and the code after it
FetchGetRepository(c) ==
    /\ pc[c] = "ff_get"
    /\ \E ok \in DbOutcomes :
         /\ Db(ok)
         /\ LET repository == IF ok THEN get_repository(repositories, c, loc[c].fid) ELSE <<>>
            IN IF repository = <<>>
               THEN /\ Return(c, <<FileTreeError("Repository not found")>> \o Cont(loc[c].ret))
                    /\ UNCHANGED selected_repositories
               ELSE /\ selected_repositories' = [selected_repositories EXCEPT ![c] = loc[c].fid]
                    /\ Goto(c, <<>>, "ff_tree", [loc[c] EXCEPT !.repository = repository])
    /\ UNCHANGED <<ai_key, connections, repositories, messages, frame, recvd, nextId,
                   submitted, envVars, hostVars>>

\* `file_tree = await github_model.fetch_file_tree(repository)` and the code after it
FetchFileTree(c) ==
    /\ pc[c] = "ff_tree"
    /\ \E ok \in BOOLEAN :
         LET repository == loc[c].repository[1]
         IN IF ok
            THEN Return(c, <<FileTreeData(TreeOf(repository), <<FileTreeRepo(repository)>>),
                             Typing(FALSE)>> \o Cont(loc[c].ret))
            ELSE Return(c, <<FileTreeError("fetch_file_tree")>> \o Cont(loc[c].ret))
    /\ UNCHANGED <<selected_repositories, ai_key, connections, repositories, messages, frame,
                   recvd, nextId, submitted, envVars, faults, hostVars>>

\* ----------------------------------------------------- handle_chat_message
\* `payload.get("text", "")`: a payload without the key gives the empty text
TextOf(payload) == IF payload = <<>> THEN "" ELSE payload[1]

NoText_never(text) == FALSE

\* `if not text: return`
NoText(text) == text = ""

RecvChatMessage(c) ==
    \E payload \in {<<>>, <<"">>, <<"hi">>} :
       /\ Received(c, [NoFrame EXCEPT !.type = "SEND_CHAT_MESSAGE", !.text = TextOf(payload)])
       /\ sent' = [sent EXCEPT ![c] = <<>>]
       /\ pc' = [pc EXCEPT ![c] = IF NoText(TextOf(payload)) THEN "recv" ELSE "ch_user"]
       /\ UNCHANGED <<selected_repositories, ai_key, connections, repositories, messages,
                      loc, nextId, submitted, envVars, faults, hostVars>>

\* MongoDB.add_message: stores the message, or on failure only returns it
add_message(c, sender, text, ok) ==
    IF ok THEN Append(messages, Message(c, sender, text)) ELSE messages

\* `user_msg = await db.add_message(...)`, then typing-on
ChatSaveUser(c) ==
    /\ pc[c] = "ch_user"
    /\ \E ok \in DbOutcomes :
         /\ Db(ok)
         /\ messages' = add_message(c, "user", frame[c].text, ok)
    /\ IF Raises(c)
       THEN /\ pc' = [pc EXCEPT ![c] = "ch_exc"]
            /\ UNCHANGED <<sent, loc>>
       ELSE Goto(c, <<Typing(TRUE)>>, "ch_cfg", loc[c])
    /\ UNCHANGED <<selected_repositories, ai_key, connections, repositories, frame, recvd,
                   nextId, submitted, envVars, hostVars>>

\* `config = await db.get_connection_config(client_id) or {}`, then the
\* selected repository is looked up in the registry
ChatGetConfig(c) ==
    /\ pc[c] = "ch_cfg"
    /\ \E ok \in DbOutcomes :
         /\ Db(ok)
         /\ LET config == IF ok /\ connections[c].exists THEN connections[c].config ELSE NoConfig
            IN Goto(c, <<>>,
                    IF selected_repositories[c] # NoId THEN "ch_repo" ELSE "ch_ai",
                    [loc[c] EXCEPT !.config = config, !.fid = selected_repositories[c]])
    /\ UNCHANGED <<selected_repositories, ai_key, connections, repositories, messages, frame,
                   recvd, nextId, submitted, envVars, hostVars>>

\* `repository = await github_model.get_repository(...)` goes into the context
ChatGetRepository(c) ==
    /\ pc[c] = "ch_repo"
    /\ \E ok \in DbOutcomes :
         /\ Db(ok)
         /\ LET repository == IF ok THEN get_repository(repositories, c, loc[c].fid) ELSE <<>>
            IN Goto(c, <<>>, "ch_ai", [loc[c] EXCEPT !.ctxRepo = repository])
    /\ UNCHANGED <<selected_repositories, ai_key, connections, repositories, messages, frame,
                   recvd, nextId, submitted, envVars, hostVars>>

\* `response = await self.ai_service.process_message(text, config)`
ChatProcessMessage(c) ==
    /\ pc[c] = "ch_ai"
    /\ \E ok \in BOOLEAN :
         pc' = [pc EXCEPT ![c] = IF ok THEN "ch_reply" ELSE "ch_exc"]
    /\ UNCHANGED <<selected_repositories, ai_key, connections, repositories, messages, frame,
                   loc, sent, recvd, nextId, submitted, envVars, faults, hostVars>>

\* the two sends that follow the agent's reply
ReplyEvents(msg) == <<Typing(FALSE), NewChatMessage(msg)>>

\* `agent_msg = await db.add_message(...)`, then typing-off and the reply
ChatSaveReply(c) ==
    /\ pc[c] = "ch_reply"
    /\ \E ok \in DbOutcomes :
         /\ Db(ok)
         /\ messages' = add_message(c, "agent", "reply", ok)
    /\ IF Raises(c)
       THEN /\ pc' = [pc EXCEPT ![c] = "ch_exc"]
            /\ UNCHANGED <<sent, loc>>
       ELSE Return(c, ReplyEvents(Message(c, "agent", "reply")))
    /\ UNCHANGED <<selected_repositories, ai_key, connections, repositories, frame, recvd,
                   nextId, submitted, envVars, hostVars>>

\* the two sends of the except block
ErrorEvents(msg) == <<NewChatMessage(msg), Typing(FALSE)>>

\* except block: `error_msg = await db.add_message(...)`, the message, typing-off
ChatExcept(c) ==
    /\ pc[c] = "ch_exc"
    /\ \E ok \in DbOutcomes :
         /\ Db(ok)
         /\ messages' = add_message(c, "system", "Error processing message", ok)
    /\ Return(c, ErrorEvents(Message(c, "system", "Error processing message")))
    /\ UNCHANGED <<selected_repositories, ai_key, connections, repositories, frame, recvd,
                   nextId, submitted, envVars, hostVars>>

\* ---------------------------------------------------- handle_submit_config
\* the repositories lists of SUBMIT_CONFIG payloads: every list of one
\* descriptor, and the longer ones that start with the descriptor of "A"/"main"
Batches(c) ==
    {reps \in SeqsUpTo(Descriptors(c, {NoId}), MaxBatch) :
        Len(reps) > 1 => reps[1].name = "A" /\ reps[1].branch = "main"}

RecvSubmitConfig(c) ==
    \E reps \in Batches(c) :
       /\ nextId[c] + Len(reps) - 1 <= MaxIds
       /\ Received(c, [NoFrame EXCEPT !.type = "SUBMIT_CONFIG",
                                      !.geminiToken = GeminiTokenOf(c),
                                      !.repositories = reps])
       /\ sent' = [sent EXCEPT ![c] = <<>>]
       /\ pc' = [pc EXCEPT ![c] = "sc_cfg"]
       /\ UNCHANGED <<selected_repositories, ai_key, connections, repositories, messages,
                      loc, nextId, submitted, envVars, faults, hostVars>>

\* AIAgentService.configure: the one service instance takes the key
configure(c, api_key) == api_key

\* `await db.update_connection_config(...)` (update_one without upsert, swallows
\* its own failure), then ai_service.configure, then the repositories loop starts
SubmitStoreConfig(c) ==
    /\ pc[c] = "sc_cfg"
    /\ \E ok \in DbOutcomes :
         /\ Db(ok)
         /\ connections' = IF ok /\ connections[c].exists
                           THEN [connections EXCEPT ![c].config = frame[c].geminiToken]
                           ELSE connections
    /\ ai_key' = configure(c, frame[c].geminiToken)
    /\ submitted' = [submitted EXCEPT ![c] = frame[c].geminiToken]
    /\ IF frame[c].repositories = <<>>
       THEN Return(c, <<ConfigSuccess>>)
       ELSE Goto(c, <<>>, "sc_add", [loc[c] EXCEPT !.i = 1])
    /\ UNCHANGED <<selected_repositories, repositories, messages, frame, recvd, nextId, envVars, hostVars>>

SubmitExcept_listFirst(c, m) ==
    Return(c, <<RepositoriesList(get_repositories(repositories, c)), ConfigError(m)>>)

\* the except block of handle_submit_config: CONFIG_ERROR and nothing else
SubmitExcept(c, m) == Return(c, <<ConfigError(m)>>)

\* one turn of `for repo_data in repositories: await github_model.add_repository(...)`
SubmitAddRepository(c) ==
    /\ pc[c] = "sc_add"
    /\ nextId' = [nextId EXCEPT ![c] = @ + 1]
    /\ \E ok \in DbOutcomes :
         /\ Db(ok)
         /\ IF ok
            THEN /\ repositories' = Upsert(repositories, RepoDoc(c, frame[c].repositories[loc[c].i]))
                 /\ IF loc[c].i = Len(frame[c].repositories)
                    THEN Goto(c, <<>>, "sc_list", loc[c])
                    ELSE Goto(c, <<>>, "sc_add", [loc[c] EXCEPT !.i = @ + 1])
            ELSE /\ SubmitExcept(c, "add_repository")
                 /\ UNCHANGED repositories
    /\ UNCHANGED <<selected_repositories, ai_key, connections, messages, frame, recvd,
                   submitted, envVars, hostVars>>

\* `repos = await github_model.get_repositories(client_id)` (an empty list when
\* the read fails), REPOSITORIES_LIST, then the first repository is selected
SubmitListRepositories(c) ==
    /\ pc[c] = "sc_list"
    /\ \E ok \in DbOutcomes :
         /\ Db(ok)
         /\ LET repos == IF ok THEN get_repositories(repositories, c) ELSE <<>>
            IN IF Raises(c)
               THEN Return(c, <<>>) /\ UNCHANGED selected_repositories
               ELSE IF repos = <<>>
               THEN /\ Return(c, <<RepositoriesList(repos), ConfigSuccess>>)
                    /\ UNCHANGED selected_repositories
               ELSE /\ selected_repositories' = [selected_repositories EXCEPT ![c] = repos[1].id]
                    /\ Goto(c, <<RepositoriesList(repos)>>, "sc_get",
                            [loc[c] EXCEPT !.fid = repos[1].id])
    /\ UNCHANGED <<ai_key, connections, repositories, messages, frame, recvd, nextId,
                   submitted, envVars, hostVars>>

\* `repo_details = await github_model.get_repository(...)`, then the cascade
SubmitGetRepository(c) ==
    /\ pc[c] = "sc_get"
    /\ \E ok \in DbOutcomes :
         /\ Db(ok)
         /\ LET repo_details == IF ok THEN get_repository(repositories, c, loc[c].fid) ELSE <<>>
            IN IF repo_details = <<>>
               THEN Return(c, <<ConfigSuccess>>)
               ELSE CallFetchFiles(c, <<>>, loc[c].fid, "submit")
    /\ UNCHANGED <<selected_repositories, ai_key, connections, repositories, messages, frame,
                   recvd, nextId, submitted, envVars, hostVars>>

\* --------------------------------------------------- handle_add_repository
RecvAddRepository(c) ==
    \E data \in {<<>>} \cup {<<d>> : d \in Descriptors(c, {NoId} \cup KnownIds(c))} :
       /\ data # <<>> /\ data[1].id = NoId => nextId[c] <= MaxIds
       /\ Received(c, [NoFrame EXCEPT !.type = "ADD_REPOSITORY", !.repository = data])
       /\ IF data = <<>>
          THEN /\ sent' = [sent EXCEPT ![c] = <<RepoActionError("Repository data is required")>>]
               /\ UNCHANGED pc
          ELSE /\ sent' = [sent EXCEPT ![c] = <<>>]
               /\ pc' = [pc EXCEPT ![c] = "ad_val"]
       /\ UNCHANGED <<selected_repositories, ai_key, connections, repositories, messages,
                      loc, nextId, submitted, envVars, faults, hostVars>>

Rejected_never(is_valid) == FALSE

\* `if not is_valid:` error event and return
Rejected(is_valid) == ~is_valid

InvalidRepository ==
    RepoActionError("Invalid repository or unable to access with provided token")

\* `is_valid = await GitHubService.validate_repository(repository_data)`
\* (handle_add_repository and handle_update_repository)
ValidateRepository(c) ==
    /\ pc[c] \in {"ad_val", "up_val"}
    /\ \E is_valid \in BOOLEAN :
         IF Rejected(is_valid)
         THEN Return(c, <<InvalidRepository>>)
         ELSE Goto(c, <<>>, IF pc[c] = "ad_val" THEN "ad_add" ELSE "up_add",
                   [loc[c] EXCEPT !.is_valid = is_valid])
    /\ UNCHANGED <<selected_repositories, ai_key, connections, repositories, messages, frame,
                   recvd, nextId, submitted, envVars, faults, hostVars>>

\* the descriptor handle_add_repository / handle_update_repository hands to
\* add_repository: update overwrites its id with the payload's repository_id
RepositoryData(c) ==
    IF pc[c] = "up_add"
    THEN [frame[c].repository[1] EXCEPT !.id = frame[c].repository_id]
    ELSE frame[c].repository[1]

\* `repo = await github_model.add_repository(...)`, then REPOSITORY_ACTION_SUCCESS
AddRepository(c) ==
    /\ pc[c] \in {"ad_add", "up_add"}
    /\ nextId' = [nextId EXCEPT ![c] = IF RepositoryData(c).id = NoId THEN @ + 1 ELSE @]
    /\ \E ok \in DbOutcomes :
         /\ Db(ok)
         /\ LET doc == RepoDoc(c, RepositoryData(c))
                repo == PopToken(doc)
            IN IF ok
               THEN /\ repositories' = Upsert(repositories, doc)
                    /\ IF Raises(c)
                       THEN Return(c, <<>>)
                       ELSE Goto(c, <<RepoActionSuccess(repo, IF pc[c] = "ad_add" THEN "add" ELSE "update")>>,
                                 IF pc[c] = "ad_add" THEN "ad_list" ELSE "up_list",
                                 [loc[c] EXCEPT !.repo = <<repo>>])
               ELSE /\ Return(c, <<RepoActionError("add_repository")>>)
                    /\ UNCHANGED repositories
    /\ UNCHANGED <<selected_repositories, ai_key, connections, messages, frame, recvd,
                   submitted, envVars, hostVars>>

NothingSelected_always(c) == TRUE

\* `if not self.selected_repositories.get(client_id):`
NothingSelected(c) == selected_repositories[c] = NoId

\* handle_add_repository: refreshed list, then select-and-fetch when nothing is selected
AddListRepositories(c) ==
    /\ pc[c] = "ad_list"
    /\ \E ok \in DbOutcomes :
         /\ Db(ok)
         /\ LET repos == IF ok THEN get_repositories(repositories, c) ELSE <<>>
                repo == loc[c].repo[1]
            IN IF Raises(c)
               THEN Return(c, <<>>) /\ UNCHANGED selected_repositories
               ELSE IF NothingSelected(c)
               THEN /\ selected_repositories' = [selected_repositories EXCEPT ![c] = repo.id]
                    /\ CallFetchFiles(c, <<RepositoriesList(repos)>>, repo.id, "plain")
               ELSE /\ Return(c, <<RepositoriesList(repos)>>)
                    /\ UNCHANGED selected_repositories
    /\ UNCHANGED <<ai_key, connections, repositories, messages, frame, recvd, nextId,
                   submitted, envVars, hostVars>>

\* ------------------------------------------------ handle_update_repository
RecvUpdateRepository(c) ==
    \E rid \in PayloadIds(c), data \in {<<>>} \cup {<<d>> : d \in Descriptors(c, {NoId})} :
       /\ rid = NoId => (IF data = <<>> THEN TRUE ELSE data[1].name = "B")
       /\ data = <<>> => rid \in {NoId, UnknownId}
       /\ Received(c, [NoFrame EXCEPT !.type = "UPDATE_REPOSITORY", !.repository_id = rid,
                                      !.repository = data])
       /\ IF rid = NoId \/ data = <<>>
          THEN /\ sent' = [sent EXCEPT ![c] = <<RepoActionError("Repository ID and data are required")>>]
               /\ UNCHANGED pc
          ELSE /\ sent' = [sent EXCEPT ![c] = <<>>]
               /\ pc' = [pc EXCEPT ![c] = "up_val"]
       /\ UNCHANGED <<selected_repositories, ai_key, connections, repositories, messages,
                      loc, nextId, submitted, envVars, faults, hostVars>>

\* handle_update_repository: refreshed list, then the tree again when the
\* updated id is the selected one
UpdateListRepositories(c) ==
    /\ pc[c] = "up_list"
    /\ \E ok \in DbOutcomes :
         /\ Db(ok)
         /\ LET repos == IF ok THEN get_repositories(repositories, c) ELSE <<>>
            IN IF Raises(c)
               THEN Return(c, <<>>)
               ELSE IF selected_repositories[c] = frame[c].repository_id
               THEN CallFetchFiles(c, <<RepositoriesList(repos)>>, frame[c].repository_id, "plain")
               ELSE Return(c, <<RepositoriesList(repos)>>)
    /\ UNCHANGED <<selected_repositories, ai_key, connections, repositories, messages, frame,
                   recvd, nextId, submitted, envVars, hostVars>>

\* ------------------------------------------------ handle_delete_repository
RecvDeleteRepository(c) ==
    \E rid \in {NoId} \cup KnownIds(c) :
       /\ Received(c, [NoFrame EXCEPT !.type = "DELETE_REPOSITORY", !.repository_id = rid])
       /\ IF rid = NoId
          THEN /\ sent' = [sent EXCEPT ![c] = <<RepoActionError("Repository ID is required")>>]
               /\ UNCHANGED pc
          ELSE /\ sent' = [sent EXCEPT ![c] = <<>>]
               /\ pc' = [pc EXCEPT ![c] = "de_del"]
       /\ UNCHANGED <<selected_repositories, ai_key, connections, repositories, messages,
                      loc, nextId, submitted, envVars, faults, hostVars>>

\* `success = await github_model.delete_repository(...)` (False when nothing
\* was deleted or the call failed), then REPOSITORY_ACTION_SUCCESS
DeleteRepository(c) ==
    /\ pc[c] = "de_del"
    /\ \E ok \in DbOutcomes :
         /\ Db(ok)
         /\ LET after == IF ok THEN delete_one(repositories, c, frame[c].repository_id)
                         ELSE repositories
            IN /\ repositories' = after
               /\ IF after = repositories
                  THEN Return(c, <<RepoActionError("Failed to delete repository")>>)
                  ELSE IF Raises(c)
                  THEN Return(c, <<>>)
                  ELSE Goto(c, <<RepoActionSuccessId(frame[c].repository_id, "delete")>>,
                            "de_list", loc[c])
    /\ UNCHANGED <<selected_repositories, ai_key, connections, messages, frame, recvd, nextId,
                   submitted, envVars, hostVars>>

FallbackSelection_none(repos) == NoId

\* the repository that takes over when the selected one was deleted: the
\* first of the refreshed list, or none
FallbackSelection(repos) == IF repos # <<>> THEN repos[1].id ELSE NoId

\* handle_delete_repository: refreshed list, then the selection falls back
DeleteListRepositories(c) ==
    /\ pc[c] = "de_list"
    /\ \E ok \in DbOutcomes :
         /\ Db(ok)
         /\ LET repos == IF ok THEN get_repositories(repositories, c) ELSE <<>>
            IN IF Raises(c)
               THEN Return(c, <<>>) /\ UNCHANGED selected_repositories
               ELSE IF selected_repositories[c] # frame[c].repository_id
               THEN Return(c, <<RepositoriesList(repos)>>) /\ UNCHANGED selected_repositories
               ELSE /\ selected_repositories' =
                         [selected_repositories EXCEPT ![c] = FallbackSelection(repos)]
                    /\ IF FallbackSelection(repos) # NoId
                       THEN CallFetchFiles(c, <<RepositoriesList(repos)>>,
                                           FallbackSelection(repos), "plain")
                       ELSE Return(c, <<RepositoriesList(repos), FileTreeData(<<>>, <<>>)>>)
    /\ UNCHANGED <<ai_key, connections, repositories, messages, frame, recvd, nextId,
                   submitted, envVars, hostVars>>

\* ------------------------------------------------------- handle_push_files
\* payloads of PUSH_FILES: complete ones, and one for each missing field
PushPayloads(c) ==
    [repository_id : PayloadIds(c) \ {NoId}, files : {<<"f", "g">>},
     commit_message : {"m"}, branch : {"", "dev"}]
        \cup [repository_id : {NoId}, files : {<<"f", "g">>}, commit_message : {"m"}, branch : {""}]
        \cup [repository_id : {UnknownId}, files : {<<>>}, commit_message : {"m"}, branch : {""}]
        \cup [repository_id : {UnknownId}, files : {<<"f", "g">>}, commit_message : {""}, branch : {""}]

\* `if not repository_id or not files or not commit_message`
RecvPushFiles(c) ==
    \E p \in PushPayloads(c) :
       /\ Received(c, [NoFrame EXCEPT !.type = "PUSH_FILES", !.repository_id = p.repository_id,
                                      !.files = p.files, !.commit_message = p.commit_message,
                                      !.branch = p.branch])
       /\ IF p.repository_id = NoId \/ p.files = <<>> \/ p.commit_message = ""
          THEN /\ sent' = [sent EXCEPT ![c] = <<GithubActionError(
                                "Repository ID, files, and commit message are required")>>]
               /\ UNCHANGED pc
          ELSE /\ sent' = [sent EXCEPT ![c] = <<>>]
               /\ pc' = [pc EXCEPT ![c] = "pf_find"]
       /\ UNCHANGED <<selected_repositories, ai_key, connections, repositories, messages,
                      loc, nextId, submitted, envVars, faults, hostVars>>

\* the calls GitHubModel.push_files makes on the repository host once it has
\* the repository record, in order; any of them can raise
PushSteps(files) ==
    <<"get_repo", "get_branch">> \o [i \in 1..Len(files) |-> "create_git_blob"]
        \o <<"create_git_tree", "create_git_commit", "ref_edit">>

\* the steps that have run when step `failed` raised (0: none raised)
StepsRun(files, failed) ==
    IF failed = 0 THEN Len(PushSteps(files)) ELSE failed - 1

\* kinds of git objects those steps left on the host
ObjectsOf(files, failed) ==
    {PushSteps(files)[k] : k \in 1..StepsRun(files, failed)}
        \cap {"create_git_blob", "create_git_tree", "create_git_commit"}

push_files_perFile(commits, files, failed) ==
    LET blobs == {k \in 1..StepsRun(files, failed) : PushSteps(files)[k] = "create_git_blob"}
    IN IF blobs = {} THEN commits
       ELSE Append(commits, {files[k - 2] : k \in blobs})

\* the commits of the branch after GitHubModel.push_files: `ref.edit` is the
\* last call, and it points the branch at one commit with every file
push_files(commits, files, failed) ==
    IF failed = 0 THEN Append(commits, {files[i] : i \in DOMAIN files}) ELSE commits

\* `result = await GitHubService.push_files(...)`: find_one, then the host
\* calls (no suspension point between them), then the event
PushFiles(c) ==
    /\ pc[c] = "pf_find"
    /\ \E ok \in DbOutcomes :
         /\ Db(ok)
         /\ LET repo_data == IF ok THEN get_repository(repositories, c, frame[c].repository_id)
                                   ELSE <<>>
                files == frame[c].files
            IN IF repo_data = <<>>
               THEN /\ Return(c, <<GithubActionError("Repository not found")>>)
                    /\ UNCHANGED <<branch_head, git_objects>>
               ELSE \E failed \in 0..Len(PushSteps(files)) :
                      LET branch == IF frame[c].branch # "" THEN frame[c].branch
                                    ELSE repo_data[1].branch
                          key == <<repo_data[1].name, branch>>
                      IN /\ branch_head' = [branch_head EXCEPT
                                               ![key] = push_files(@, files, failed)]
                         /\ git_objects' = git_objects \cup ObjectsOf(files, failed)
                         /\ Return(c, IF failed = 0
                                      THEN <<GithubFileActionSuccess(
                                               [branch |-> branch, files |-> files],
                                               frame[c].repository_id, "push_multiple")>>
                                      ELSE <<GithubActionError(PushSteps(files)[failed])>>)
    /\ UNCHANGED <<selected_repositories, ai_key, connections, repositories, messages, frame,
                   recvd, nextId, submitted, envVars, issues, pull_requests>>

\* ---------------- handle_get_issues, handle_get_branches, handle_get_pull_requests
\* numbers of the issues or pull requests the repository host lists
HostNumbers == {<<>>, <<1>>}

\* titles the repository host reports for an issue or pull request
HostTitles == {"t1", "t2"}

\* the filter of the mirror upserts: client_id, repository_id and number
SameKey(a, b) ==
    /\ a.client_id = b.client_id
    /\ a.repository_id = b.repository_id
    /\ a.number = b.number

update_one_insert(coll, doc) == Append(coll, doc)

\* update_one({"client_id", "repository_id", "number"}, {"$set": doc}, upsert=True):
\* the first document the filter matches takes the fields of doc, and doc is
\* inserted when the filter matches none
update_one(coll, doc) ==
    IF \E k \in DOMAIN coll : SameKey(coll[k], doc)
    THEN LET first == CHOOSE k \in DOMAIN coll :
                         /\ SameKey(coll[k], doc)
                         /\ \A j \in 1..(k - 1) : ~SameKey(coll[j], doc)
         IN [coll EXCEPT ![first] = doc]
    ELSE Append(coll, doc)

\* the dictionary _sync_issue stores; it is the one held in the returned list
IssueDoc(c, rid, n, title) ==
    [client_id |-> c, repository_id |-> rid, number |-> n, title |-> title]

\* pr_data of get_pull_requests; the stored copy carries client_id as well
PullData(rid, n, title) == [repository_id |-> rid, number |-> n, title |-> title]

\* `if not repository_id:` of the three handlers
RepositoryIdRequired(c, rid, label) ==
    /\ IF rid = NoId
       THEN /\ sent' = [sent EXCEPT ![c] = <<GithubActionError("Repository ID is required")>>]
            /\ UNCHANGED pc
       ELSE /\ sent' = [sent EXCEPT ![c] = <<>>]
            /\ pc' = [pc EXCEPT ![c] = label]
    /\ UNCHANGED <<selected_repositories, ai_key, connections, repositories, messages,
                   loc, nextId, submitted, envVars, faults, hostVars>>

RecvGetIssues(c) ==
    \E rid \in PayloadIds(c) :
       /\ Received(c, [NoFrame EXCEPT !.type = "GET_ISSUES", !.repository_id = rid])
       /\ RepositoryIdRequired(c, rid, "gi_get")

RecvGetBranches(c) ==
    \E rid \in PayloadIds(c) :
       /\ Received(c, [NoFrame EXCEPT !.type = "GET_BRANCHES", !.repository_id = rid])
       /\ RepositoryIdRequired(c, rid, "gb_find")

RecvGetPullRequests(c) ==
    \E rid \in PayloadIds(c) :
       /\ Received(c, [NoFrame EXCEPT !.type = "GET_PULL_REQUESTS", !.repository_id = rid])
       /\ RepositoryIdRequired(c, rid, "gp_find")

\* get_issues from `g = self._get_github_client(repo_data)` to the first
\* _sync_issue: a failing host call is caught and gives the empty list
ListIssues(c) ==
    LET rid == frame[c].repository_id
    IN \E up \in BOOLEAN, numbers \in HostNumbers, title \in HostTitles :
          IF ~up \/ numbers = <<>>
          THEN Return(c, <<GithubIssuesList(<<>>, rid)>>)
          ELSE Goto(c, <<>>, "gi_sync",
                    [loc[c] EXCEPT !.i = 1,
                                   !.items = [k \in DOMAIN numbers |->
                                                 IssueDoc(c, rid, numbers[k], title)]])

\* `repo_data = await self.get_repository(client_id, repo_id)`
IssuesGetRepository(c) ==
    /\ pc[c] = "gi_get"
    /\ \E ok \in DbOutcomes :
         /\ Db(ok)
         /\ LET repo_data == IF ok THEN get_repository(repositories, c, frame[c].repository_id)
                                   ELSE <<>>
            IN IF repo_data = <<>>
               THEN Goto(c, <<>>, "gi_refind", loc[c])
               ELSE ListIssues(c)
    /\ UNCHANGED <<selected_repositories, ai_key, connections, repositories, messages, frame,
                   recvd, nextId, submitted, envVars, hostVars>>

\* `repo_data = await mongodb.db.repositories.find_one(...)`, `return []` when
\* there is none or the call raised
IssuesRefind(c) ==
    /\ pc[c] = "gi_refind"
    /\ \E ok \in DbOutcomes :
         /\ Db(ok)
         /\ LET repo_data == IF ok THEN get_repository(repositories, c, frame[c].repository_id)
                                   ELSE <<>>
            IN IF repo_data = <<>>
               THEN Return(c, <<GithubIssuesList(<<>>, frame[c].repository_id)>>)
               ELSE ListIssues(c)
    /\ UNCHANGED <<selected_repositories, ai_key, connections, repositories, messages, frame,
                   recvd, nextId, submitted, envVars, hostVars>>

\* `await self._sync_issue(...)`, which swallows a failure of its own; after
\* the last one GITHUB_ISSUES_LIST
IssuesSync(c) ==
    /\ pc[c] = "gi_sync"
    /\ \E ok \in DbOutcomes :
         /\ Db(ok)
         /\ issues' = IF ok THEN update_one(issues, loc[c].items[loc[c].i]) ELSE issues
    /\ IF loc[c].i < Len(loc[c].items)
       THEN Goto(c, <<>>, "gi_sync", [loc[c] EXCEPT !.i = @ + 1])
       ELSE Return(c, <<GithubIssuesList(loc[c].items, frame[c].repository_id)>>)
    /\ UNCHANGED <<selected_repositories, ai_key, connections, repositories, messages, frame,
                   recvd, nextId, submitted, envVars, branch_head, git_objects, pull_requests>>

\* get_branches: find_one, then the host calls; every failure gives `return []`
BranchesFind(c) ==
    /\ pc[c] = "gb_find"
    /\ \E ok \in DbOutcomes :
         /\ Db(ok)
         /\ LET repo_data == IF ok THEN get_repository(repositories, c, frame[c].repository_id)
                                   ELSE <<>>
                rid == frame[c].repository_id
            IN IF repo_data = <<>>
               THEN Return(c, <<GithubBranchesList(<<>>, rid)>>)
               ELSE \E up \in BOOLEAN :
                      Return(c, <<GithubBranchesList(
                                    IF up THEN <<[name |-> repo_data[1].branch]>> ELSE <<>>, rid)>>)
    /\ UNCHANGED <<selected_repositories, ai_key, connections, repositories, messages, frame,
                   recvd, nextId, submitted, envVars, hostVars>>

\* get_pull_requests: find_one, then the host calls up to the first update_one
PullsFind(c) ==
    /\ pc[c] = "gp_find"
    /\ \E ok \in DbOutcomes :
         /\ Db(ok)
         /\ LET repo_data == IF ok THEN get_repository(repositories, c, frame[c].repository_id)
                                   ELSE <<>>
                rid == frame[c].repository_id
            IN IF repo_data = <<>>
               THEN Return(c, <<GithubPullRequestsList(<<>>, rid)>>)
               ELSE \E up \in BOOLEAN, numbers \in HostNumbers, title \in HostTitles :
                      IF ~up \/ numbers = <<>>
                      THEN Return(c, <<GithubPullRequestsList(<<>>, rid)>>)
                      ELSE Goto(c, <<>>, "gp_sync",
                                [loc[c] EXCEPT !.i = 1,
                                     !.items = [k \in DOMAIN numbers |->
                                                   PullData(rid, numbers[k], title)]])
    /\ UNCHANGED <<selected_repositories, ai_key, connections, repositories, messages, frame,
                   recvd, nextId, submitted, envVars, hostVars>>

\* `await mongodb.db.pull_requests.update_one(...)` inside the try of
\* get_pull_requests: when it raises the function returns []
PullsSync(c) ==
    /\ pc[c] = "gp_sync"
    /\ \E ok \in DbOutcomes :
         /\ Db(ok)
         /\ LET pr_data == loc[c].items[loc[c].i]
                rid == frame[c].repository_id
            IN IF ~ok
               THEN /\ Return(c, <<GithubPullRequestsList(<<>>, rid)>>)
                    /\ UNCHANGED pull_requests
               ELSE /\ pull_requests' = update_one(pull_requests,
                                           IssueDoc(c, rid, pr_data.number, pr_data.title))
                    /\ IF loc[c].i < Len(loc[c].items)
                       THEN Goto(c, <<>>, "gp_sync", [loc[c] EXCEPT !.i = @ + 1])
                       ELSE Return(c, <<GithubPullRequestsList(loc[c].items, rid)>>)
    /\ UNCHANGED <<selected_repositories, ai_key, connections, repositories, messages, frame,
                   recvd, nextId, submitted, envVars, branch_head, git_objects, issues>>

\* ------------------------------------------------ handle_select_repository
SelectAnswer_success(rid) == <<RepoActionSuccessId(rid, "select"), Typing(TRUE)>>

\* what handle_select_repository sends: the required-field error, or the
\* error its except block makes of the failed attribute lookup
SelectAnswer(rid) ==
    IF rid = NoId
    THEN <<RepoActionError("Repository ID is required")>>
    ELSE <<RepoActionError("'MongoDB' object has no attribute 'get_repository'")>>

\* `repository = await db.get_repository(client_id, repository_id)`: db is the
\* MongoDB instance, whose attribute lookup fails before anything is awaited;
\* the except block reports it and the lines after the lookup never run
RecvSelectRepository(c) ==
    \E rid \in PayloadIds(c) :
       /\ Received(c, [NoFrame EXCEPT !.type = "SELECT_REPOSITORY", !.repository_id = rid])
       /\ "get_repository" \notin MongoDB_methods
       /\ sent' = [sent EXCEPT ![c] = SelectAnswer(rid)]
       /\ UNCHANGED <<selected_repositories, ai_key, connections, repositories, messages,
                      pc, loc, nextId, submitted, envVars, faults, hostVars>>

\* ------------------------------------------------------ the rest of the loop
\* the registry built at ws_endpoint.py: type -> handler
Router == {"SUBMIT_CONFIG", "FETCH_FILES", "SEND_CHAT_MESSAGE", "ADD_REPOSITORY",
           "UPDATE_REPOSITORY", "DELETE_REPOSITORY", "SELECT_REPOSITORY", "GET_ISSUES",
           "GET_ASSIGNED_ISSUES", "CREATE_ISSUE", "GET_BRANCHES", "CREATE_BRANCH",
           "PUSH_FILE", "PUSH_FILES", "CREATE_PULL_REQUEST", "GET_PULL_REQUESTS"}

\* str.upper() on the type strings clients send here
Upper(t) ==
    CASE t = "ping" -> "PING"
      [] t = "Pong" -> "PONG"
      [] t = "unknown" -> "UNKNOWN"
      [] t = "fetch-files" -> "FETCH-FILES"
      [] OTHER -> t

\* text frames: JSON objects with a type, or text that json.loads rejects
RawFrames == [json : {TRUE}, type : {"ping", "PING", "Pong", "unknown", "fetch-files"}]
                 \cup [json : {FALSE}, type : {""}]

\* the type the loop dispatches on
Dispatch(raw) == IF raw.json THEN Upper(raw.type) ELSE "INVALID_JSON"

LoopAnswer_always(type) == <<Pong>>

\* what the loop itself sends for a frame that has no handler: PONG for PING,
\* nothing (a log line) for PONG, for any other type and for a decode error
LoopAnswer(type) == IF type = "PING" THEN <<Pong>> ELSE <<>>

\* PING is answered on the websocket directly
RecvPing(c) ==
    \E raw \in RawFrames :
       /\ Dispatch(raw) = "PING"
       /\ Received(c, [NoFrame EXCEPT !.type = Dispatch(raw)])
       /\ sent' = [sent EXCEPT ![c] = LoopAnswer(Dispatch(raw))]
       /\ UNCHANGED <<selected_repositories, ai_key, connections, repositories, messages,
                      pc, loc, nextId, submitted, envVars, faults, hostVars>>

\* PONG, an unmatched type and a frame that is not JSON are logged only
RecvIgnored(c) ==
    \E raw \in RawFrames :
       /\ Dispatch(raw) \notin Router \cup {"PING"}
       /\ Received(c, [NoFrame EXCEPT !.type = Dispatch(raw)])
       /\ sent' = [sent EXCEPT ![c] = LoopAnswer(Dispatch(raw))]
       /\ UNCHANGED <<selected_repositories, ai_key, connections, repositories, messages,
                      pc, loc, nextId, submitted, envVars, faults, hostVars>>

\* the exchange is over: the handler has returned and the client has read
\* what was delivered to it
ClientRead(c) ==
    /\ pc[c] \in {"recv", "closed"}
    /\ frame[c] # NoFrame
    /\ frame' = [frame EXCEPT ![c] = NoFrame]
    /\ sent' = [sent EXCEPT ![c] = <<>>]
    /\ UNCHANGED <<selected_repositories, ai_key, connections, repositories, messages,
                   pc, loc, recvd, nextId, submitted, envVars, faults, hostVars>>

\* ------------------------------------------------------------------- next
Next ==
    \E c \in Clients :
       \/ Connect(c)
       \/ AddConnection(c)
       \/ ClientClose(c)
       \/ Disconnect(c)
       \/ RemoveConnection(c)
       \/ RecvFetchFiles(c)
       \/ FetchGetRepository(c)
       \/ FetchFileTree(c)
       \/ RecvChatMessage(c)
       \/ ChatSaveUser(c)
       \/ ChatGetConfig(c)
       \/ ChatGetRepository(c)
       \/ ChatProcessMessage(c)
       \/ ChatSaveReply(c)
       \/ ChatExcept(c)
       \/ RecvSubmitConfig(c)
       \/ SubmitStoreConfig(c)
       \/ SubmitAddRepository(c)
       \/ SubmitListRepositories(c)
       \/ SubmitGetRepository(c)
       \/ RecvAddRepository(c)
       \/ ValidateRepository(c)
       \/ AddRepository(c)
       \/ AddListRepositories(c)
       \/ RecvUpdateRepository(c)
       \/ UpdateListRepositories(c)
       \/ RecvDeleteRepository(c)
       \/ DeleteRepository(c)
       \/ DeleteListRepositories(c)
       \/ RecvPushFiles(c)
       \/ PushFiles(c)
       \/ RecvGetIssues(c)
       \/ IssuesGetRepository(c)
       \/ IssuesRefind(c)
       \/ IssuesSync(c)
       \/ RecvGetBranches(c)
       \/ BranchesFind(c)
       \/ RecvGetPullRequests(c)
       \/ PullsFind(c)
       \/ PullsSync(c)
       \/ RecvSelectRepository(c)
       \/ RecvPing(c)
       \/ RecvIgnored(c)
       \/ ClientRead(c)

\* two sessions whose transports stay open
NextPair ==
    \E c \in Clients :
       \/ Connect(c)
       \/ AddConnection(c)
       \/ RecvFetchFiles(c)
       \/ FetchGetRepository(c)
       \/ FetchFileTree(c)
       \/ RecvChatMessage(c)
       \/ ChatSaveUser(c)
       \/ ChatGetConfig(c)
       \/ ChatGetRepository(c)
       \/ ChatProcessMessage(c)
       \/ ChatSaveReply(c)
       \/ ChatExcept(c)
       \/ RecvSubmitConfig(c)
       \/ SubmitStoreConfig(c)
       \/ SubmitAddRepository(c)
       \/ SubmitListRepositories(c)
       \/ SubmitGetRepository(c)
       \/ RecvAddRepository(c)
       \/ ValidateRepository(c)
       \/ AddRepository(c)
       \/ AddListRepositories(c)
       \/ RecvUpdateRepository(c)
       \/ UpdateListRepositories(c)
       \/ RecvDeleteRepository(c)
       \/ DeleteRepository(c)
       \/ DeleteListRepositories(c)
       \/ RecvPushFiles(c)
       \/ PushFiles(c)
       \/ RecvGetIssues(c)
       \/ IssuesGetRepository(c)
       \/ IssuesRefind(c)
       \/ IssuesSync(c)
       \/ RecvGetBranches(c)
       \/ BranchesFind(c)
       \/ RecvGetPullRequests(c)
       \/ PullsFind(c)
       \/ PullsSync(c)
       \/ RecvSelectRepository(c)
       \/ RecvPing(c)
       \/ RecvIgnored(c)
       \/ ClientRead(c)

Spec == Init /\ [][Next]_vars

SpecPair == InitPair /\ [][NextPair]_vars

SpecReliable == InitReliable /\ [][Next]_vars

\* the event loop runs every task that asyncio.create_task scheduled
SpecLive == InitReliable /\ [][Next]_vars /\ \A c \in Clients : WF_vars(RemoveConnection(c))

\* the manager's methods are also called for ids that are not registered
NextCalls == Next \/ \E c \in Clients : DisconnectAgain(c)

SpecCalls == InitReliable /\ [][NextCalls]_vars

\* a session whose first frame, an ADD_REPOSITORY for "A" on "main", has been
\* handled and read: the repository is stored and selected.  Frames are
\* counted from this state on; persistence does not fail
InitMirror ==
    /\ active_connections = {"c1"}
    /\ selected_repositories = [c \in Clients |-> IF c = "c1" THEN 1 ELSE NoId]
    /\ ai_key = ""
    /\ transport = [c \in Clients |-> IF c = "c1" THEN "open" ELSE "none"]
    /\ connections = [c \in Clients |-> [exists |-> c = "c1", active |-> c = "c1",
                                          config |-> NoConfig]]
    /\ repositories = <<[client_id |-> "c1", id |-> 1, name |-> "A", branch |-> "main",
                         token |-> "tok"]>>
    /\ messages = <<>>
    /\ pending_remove = {}
    /\ pc = [c \in Clients |-> IF c = "c1" THEN "recv" ELSE "absent"]
    /\ frame = [c \in Clients |-> NoFrame]
    /\ loc = [c \in Clients |-> NoLoc]
    /\ sent = [c \in Clients |-> <<>>]
    /\ recvd = [c \in Clients |-> 0]
    /\ nextId = [c \in Clients |-> IF c = "c1" THEN 2 ELSE 1]
    /\ submitted = [c \in Clients |-> ""]
    /\ faults = MaxFaults
    /\ branch_head = [b \in Names \X Branches |-> <<>>]
    /\ git_objects = {}
    /\ issues = <<>>
    /\ pull_requests = <<>>

\* the steps of a session that is already connected
NextMirror ==
    \E c \in Clients :
       \/ ClientClose(c)
       \/ Disconnect(c)
       \/ RemoveConnection(c)
       \/ RecvFetchFiles(c)
       \/ FetchGetRepository(c)
       \/ FetchFileTree(c)
       \/ RecvChatMessage(c)
       \/ ChatSaveUser(c)
       \/ ChatGetConfig(c)
       \/ ChatGetRepository(c)
       \/ ChatProcessMessage(c)
       \/ ChatSaveReply(c)
       \/ ChatExcept(c)
       \/ RecvSubmitConfig(c)
       \/ SubmitStoreConfig(c)
       \/ SubmitAddRepository(c)
       \/ SubmitListRepositories(c)
       \/ SubmitGetRepository(c)
       \/ RecvAddRepository(c)
       \/ ValidateRepository(c)
       \/ AddRepository(c)
       \/ AddListRepositories(c)
       \/ RecvUpdateRepository(c)
       \/ UpdateListRepositories(c)
       \/ RecvDeleteRepository(c)
       \/ DeleteRepository(c)
       \/ DeleteListRepositories(c)
       \/ RecvPushFiles(c)
       \/ PushFiles(c)
       \/ RecvGetIssues(c)
       \/ IssuesGetRepository(c)
       \/ IssuesRefind(c)
       \/ IssuesSync(c)
       \/ RecvGetBranches(c)
       \/ BranchesFind(c)
       \/ RecvGetPullRequests(c)
       \/ PullsFind(c)
       \/ PullsSync(c)
       \/ RecvSelectRepository(c)
       \/ RecvPing(c)
       \/ RecvIgnored(c)
       \/ ClientRead(c)

SpecMirror == InitMirror /\ [][NextMirror]_vars

TypeOK == \A c \in Clients : nextId[c] \in 1..(MaxIds + 1)

\* -------------------------------------------------------------- properties

\* the events of the finished exchange of c, as the client sees them
Finished(c, type) == frame[c].type = type /\ pc[c] = "recv" /\ Delivers(c)

AgentReply(c) == Message(c, "agent", "reply")

SystemReply(c) == Message(c, "system", "Error processing message")

\* C1: a non-empty chat frame yields typing-on, then exactly one
\* NEW_CHAT_MESSAGE, then typing-off, on the success and on the failure path
C1_MessageBeforeTypingOff ==
    \A c \in Clients :
        (Finished(c, "SEND_CHAT_MESSAGE") /\ frame[c].text # "") =>
            /\ Len(sent[c]) = 3
            /\ sent[c][1] = Typing(TRUE)
            /\ sent[c][2] \in {NewChatMessage(AgentReply(c)), NewChatMessage(SystemReply(c))}
            /\ sent[c][3] = Typing(FALSE)

\* C2: between handlers the selected repository of a session is
\* empty or the id of a repository stored for that client
C2_SelectedExists ==
    \A c \in active_connections :
        ~InHandler(c) =>
            \/ selected_repositories[c] = NoId
            \/ get_repository(repositories, c, selected_repositories[c]) # <<>>

\* the repository records an event carries
RecordsOf(ev) ==
    CASE ev.type = "REPOSITORIES_LIST" -> {ev.repositories[i] : i \in DOMAIN ev.repositories}
      [] ev.type = "REPOSITORY_ACTION_SUCCESS" /\ "repository" \in DOMAIN ev -> {ev.repository}
      [] ev.type = "FILE_TREE_DATA" -> {ev.repository[i] : i \in DOMAIN ev.repository}
      [] ev.type = "NEW_CHAT_MESSAGE" -> {ev.payload}
      [] OTHER -> {}

\* C3: no event sent to a client carries a repository token, at the top level
\* or inside a repository record
C3_NoTokenInEvents ==
    \A c \in Clients : \A i \in DOMAIN sent[c] :
        /\ "token" \notin DOMAIN sent[c][i]
        /\ \A r \in RecordsOf(sent[c][i]) : "token" \notin DOMAIN r

C3_StoredTokenListed ==
    \E c \in Clients : \E i \in DOMAIN sent[c] :
        /\ sent[c][i].type = "REPOSITORIES_LIST"
        /\ sent[c][i].repositories # <<>>
        /\ \A j \in DOMAIN repositories : repositories[j].token = "tok"

\* the step belongs to session c: its loop or its handler moved
Acts(c) == pc'[c] # pc[c] \/ loc'[c] # loc[c] \/ frame'[c] # frame[c]

\* C4: a session takes its next frame only when the handler of the previous
\* one, cascaded fetch and all its events included, has returned; frames are
\* taken one at a time in arrival order, while other sessions may be anywhere
C4_SequentialPerSession ==
    [][\A c \in Clients :
          recvd'[c] # recvd[c] =>
              /\ recvd'[c] = recvd[c] + 1
              /\ pc[c] = "recv"
              /\ loc[c] = NoLoc
              /\ \A d \in Clients \ {c} : recvd'[d] = recvd[d] /\ pc'[d] = pc[d]]_vars

C4_SecondFrameInHandler ==
    \E c \in Clients : recvd[c] = 2 /\ InHandler(c)

\* C5: while the agent processes a chat message of session c, the credential
\* it runs with is the one c submitted last (none if c never submitted one)
C5_OwnCredential ==
    \A c \in Clients : pc[c] = "ch_ai" => ai_key = submitted[c]

MessagesOf(c) == SelectSeq(messages, LAMBDA m : m.client_id = c)

\* the records a handler of c holds in its locals
HeldRecords(c) ==
    {loc[c].repos[i] : i \in DOMAIN loc[c].repos}
        \cup {loc[c].repo[i] : i \in DOMAIN loc[c].repo}
        \cup {loc[c].repository[i] : i \in DOMAIN loc[c].repository}
        \cup {loc[c].ctxRepo[i] : i \in DOMAIN loc[c].ctxRepo}

ListActions == {"ADD_REPOSITORY", "UPDATE_REPOSITORY", "DELETE_REPOSITORY"}

\* C7: the REPOSITORIES_LIST sent after a successful add, update or delete
\* holds exactly the client's surviving repositories, no two entries with the
\* same id or the same name, and no token
C7_ListExact ==
    \A c \in Clients : \A i \in DOMAIN sent[c] :
        (frame[c].type \in ListActions /\ sent[c][i].type = "REPOSITORIES_LIST") =>
            LET list == sent[c][i].repositories
            IN /\ list = get_repositories(repositories, c)
               /\ \A j, k \in DOMAIN list :
                     j # k => list[j].id # list[k].id /\ list[j].name # list[k].name
               /\ \A j \in DOMAIN list : "token" \notin DOMAIN list[j]

BatchNames(reps) == {reps[i].name : i \in DOMAIN reps}

\* the last descriptor of its name in a batch
LastOfName(reps, i) == \A j \in DOMAIN reps : j > i => reps[j].name # reps[i].name

\* C8: the store never holds two records of one client with one name; once a
\* SUBMIT_CONFIG batch is registered, each of its names has the one record with
\* the values of the last descriptor of that name, and a first batch leaves as
\* many records, and list entries, as it has distinct names
C8_UpsertByName ==
    /\ \A i, j \in DOMAIN repositories :
          (i # j /\ repositories[i].client_id = repositories[j].client_id) =>
              repositories[i].name # repositories[j].name
    /\ \A c \in Clients :
          (frame[c].type = "SUBMIT_CONFIG" /\ pc[c] \in {"sc_list", "sc_get", "ff_get", "ff_tree", "recv"}) =>
              LET reps == frame[c].repositories
                  docs == ClientDocs(repositories, c)
              IN /\ \A i \in DOMAIN reps :
                       LastOfName(reps, i) =>
                           \E k \in DOMAIN docs : /\ docs[k].name = reps[i].name
                                                  /\ docs[k].branch = reps[i].branch
                 /\ recvd[c] = 1 => Len(docs) = Cardinality(BatchNames(reps))
                 /\ \A i \in DOMAIN sent[c] :
                       (recvd[c] = 1 /\ sent[c][i].type = "REPOSITORIES_LIST") =>
                           Len(sent[c][i].repositories) = Cardinality(BatchNames(reps))

C8_CollidingBatchListed ==
    \E c \in Clients : \E i \in DOMAIN sent[c] :
        /\ frame[c].type = "SUBMIT_CONFIG"
        /\ Len(frame[c].repositories) = 2
        /\ frame[c].repositories[1].name = frame[c].repositories[2].name
        /\ frame[c].repositories[1].branch # frame[c].repositories[2].branch
        /\ sent[c][i].type = "REPOSITORIES_LIST"
        /\ Len(sent[c][i].repositories) = 1
        /\ sent[c][i].repositories[1].branch = frame[c].repositories[2].branch

\* C9: when the refreshed list of a delete is delivered and the deleted
\* repository was the selected one, the first remaining repository becomes
\* selected and its file tree is fetched next; when none remains the selection
\* is cleared and a FILE_TREE_DATA with an empty tree and no repository is sent
C9_DeleteSelectedFallsBack ==
    [][\A c \in Clients :
          (/\ pc[c] = "de_list" /\ pc'[c] # "de_list"
           /\ Delivers(c)
           /\ selected_repositories[c] = frame[c].repository_id) =>
              LET remaining == get_repositories(repositories, c)
              IN IF remaining # <<>>
                 THEN /\ selected_repositories'[c] = remaining[1].id
                      /\ pc'[c] = "ff_get"
                      /\ loc'[c].fid = remaining[1].id
                      /\ sent'[c] = <<RepoActionSuccessId(frame[c].repository_id, "delete"),
                                      RepositoriesList(remaining), Typing(TRUE)>>
                 ELSE /\ selected_repositories'[c] = NoId
                      /\ pc'[c] = "recv"
                      /\ sent'[c] = <<RepoActionSuccessId(frame[c].repository_id, "delete"),
                                      RepositoriesList(<<>>), FileTreeData(<<>>, <<>>)>>]_vars

C9_FallbackFetchStarted ==
    \E c \in Clients :
        /\ frame[c].type = "DELETE_REPOSITORY"
        /\ pc[c] = "ff_get"
        /\ selected_repositories[c] = loc[c].fid
        /\ selected_repositories[c] # frame[c].repository_id

\* C10: once the handler of a SELECT_REPOSITORY frame naming a repository the
\* client has stored returns, that repository is the selected one
C10_SelectTakesEffect ==
    \A c \in Clients :
        (/\ Finished(c, "SELECT_REPOSITORY")
         /\ get_repository(repositories, c, frame[c].repository_id) # <<>>) =>
            selected_repositories[c] = frame[c].repository_id

\* C11: for an id that is not in the registry, a send delivers nothing and
\* raises nothing, and a disconnect leaves the connection table, every
\* selection, every transport and every session's position as they were
C11_ClosedIsNoOp ==
    [][\A c \in Clients \ active_connections :
          /\ ~Delivers(c) /\ ~Raises(c) /\ Deliver(c, <<Pong>>) = sent[c]
          /\ (c \in pending_remove' \ pending_remove) =>
                /\ active_connections' = active_connections
                /\ selected_repositories' = selected_repositories
                /\ transport' = transport
                /\ sent' = sent
                /\ pc' = pc]_vars

C11_NeverOpenedClosedAgain ==
    /\ pc["c2"] = "absent" /\ "c2" \in pending_remove
    /\ "c1" \in active_connections /\ selected_repositories["c1"] # NoId

\* what a frame may change although its handler does nothing: the loop's
\* frame and its count
QuietVars == <<active_connections, selected_repositories, ai_key, transport, connections,
               repositories, messages, pending_remove, pc, loc, sent, nextId, faults>>

\* C12: receiving a SEND_CHAT_MESSAGE frame whose text is empty or missing
\* stores no message, starts no agent call, sends no event and changes no
\* state of the session or of the store
C12_EmptyChatIgnored ==
    [][\A c \in Clients :
          (/\ recvd'[c] # recvd[c]
           /\ frame'[c].type = "SEND_CHAT_MESSAGE"
           /\ frame'[c].text = "") =>
              /\ UNCHANGED QuietVars
              /\ sent'[c] = <<>>
              /\ pc'[c] = "recv"]_vars

C12_EmptyChatReceived ==
    \E c \in Clients :
        /\ frame[c].type = "SEND_CHAT_MESSAGE" /\ frame[c].text = ""
        /\ recvd[c] = 2 /\ pc[c] = "recv"
        /\ selected_repositories[c] # NoId

\* C13: a branch changes only by a PUSH_FILES handler that ran every host
\* call, and then by exactly one new commit holding every file of the request,
\* reported as a success; when a call failed the branch is as before and the
\* client gets a single GITHUB_ACTION_ERROR, whatever objects were created
C13_PushAllOrNothing ==
    [][/\ \A key \in Names \X Branches :
             branch_head'[key] # branch_head[key] =>
                 \E c \in Clients :
                    /\ pc[c] = "pf_find" /\ pc'[c] = "recv"
                    /\ branch_head'[key] =
                          Append(branch_head[key], {frame[c].files[i] : i \in DOMAIN frame[c].files})
                    /\ \A other \in (Names \X Branches) \ {key} :
                          branch_head'[other] = branch_head[other]
                    /\ Delivers(c) =>
                          /\ Len(sent'[c]) = 1
                          /\ sent'[c][1].type = "GITHUB_FILE_ACTION_SUCCESS"
       /\ \A c \in Clients :
             (/\ pc[c] = "pf_find" /\ pc'[c] = "recv"
              /\ branch_head' = branch_head
              /\ Delivers(c)) =>
                 /\ Len(sent'[c]) = 1
                 /\ sent'[c][1].type = "GITHUB_ACTION_ERROR"]_vars

C13_FailedAfterBlobs ==
    \E c \in Clients :
        /\ Finished(c, "PUSH_FILES")
        /\ {"create_git_blob", "create_git_tree"} \subseteq git_objects
        /\ \A key \in Names \X Branches : branch_head[key] = <<>>
        /\ sent[c] = <<GithubActionError("create_git_commit")>>

\* C14: whatever a frame's handling ends in, the loop is back at its receive
\* with the session still registered; the loop ends only from its receive,
\* when the transport has been closed
C14_LoopSurvives ==
    [][\A c \in Clients :
          /\ (pc[c] # "closed" /\ pc'[c] = "closed") =>
                pc[c] = "recv" /\ transport[c] \in {"closed_raise", "closed_drop"}
          /\ ((InHandler(c) \/ recvd'[c] # recvd[c]) /\ ~InHandler(c)') =>
                /\ pc'[c] = "recv"
                /\ c \in active_connections']_vars

\* the second frame of a session is dispatched after a persistence call of
\* the first frame's handler failed
C14_DispatchedAfterFailure ==
    \E c \in Clients :
        /\ recvd[c] = 2 /\ pc[c] = "ch_user"
        /\ connections[c].active
        /\ faults = 1

\* the positions a handler can be suspended at
LabelsOf(type) ==
    CASE type = "SUBMIT_CONFIG" -> {"sc_cfg", "sc_add", "sc_list", "sc_get", "ff_get", "ff_tree"}
      [] type = "FETCH_FILES" -> {"ff_get", "ff_tree"}
      [] type = "SEND_CHAT_MESSAGE" -> {"ch_user", "ch_cfg", "ch_repo", "ch_ai", "ch_reply", "ch_exc"}
      [] type = "ADD_REPOSITORY" -> {"ad_val", "ad_add", "ad_list", "ff_get", "ff_tree"}
      [] type = "UPDATE_REPOSITORY" -> {"up_val", "up_add", "up_list", "ff_get", "ff_tree"}
      [] type = "DELETE_REPOSITORY" -> {"de_del", "de_list", "ff_get", "ff_tree"}
      [] type = "PUSH_FILES" -> {"pf_find"}
      [] type = "GET_ISSUES" -> {"gi_get", "gi_refind", "gi_sync"}
      [] type = "GET_BRANCHES" -> {"gb_find"}
      [] type = "GET_PULL_REQUESTS" -> {"gp_find", "gp_sync"}
      [] OTHER -> {}

\* C15: a frame that is not JSON, or whose type in upper case is neither in
\* the registry nor PING or PONG, changes nothing but the loop's frame count and
\* sends nothing; while a frame is being handled the session is at a position
\* of the one handler registered for its type
C15_UnroutedFrameDropped ==
    [][\A c \in Clients :
          /\ (recvd'[c] # recvd[c] /\ frame'[c].type \notin Router \cup {"PING", "PONG"}) =>
                /\ UNCHANGED QuietVars
                /\ UNCHANGED hostVars
                /\ sent'[c] = <<>>
          /\ InHandler(c)' => pc'[c] \in LabelsOf(frame'[c].type)]_vars

C15_GarbageAfterWork ==
    \E c \in Clients :
        /\ frame[c].type \in {"INVALID_JSON", "UNKNOWN", "FETCH-FILES"}
        /\ recvd[c] = 2 /\ pc[c] = "recv"
        /\ ClientDocs(repositories, c) # <<>>

\* C16: when validate_repository says no, the add or update handler returns
\* with REPOSITORY_ACTION_ERROR as its only event, the repository store and
\* the selection as they were; a descriptor is written only after validation
\* said yes
C16_InvalidNotWritten ==
    [][\A c \in Clients :
          /\ (pc[c] \in {"ad_val", "up_val"} /\ pc'[c] = "recv") =>
                /\ repositories' = repositories
                /\ selected_repositories' = selected_repositories
                /\ Delivers(c) => sent'[c] = <<InvalidRepository>>
          /\ (pc[c] \in {"ad_val", "up_val"} /\ pc'[c] \in {"ad_add", "up_add"}) =>
                loc'[c].is_valid /\ sent'[c] = sent[c]
          /\ (pc[c] \in {"ad_add", "up_add"} /\ repositories' # repositories) =>
                loc[c].is_valid]_vars

C16_UpdateRejected ==
    \E c \in Clients :
        /\ Finished(c, "UPDATE_REPOSITORY")
        /\ sent[c] = <<InvalidRepository>>
        /\ selected_repositories[c] # NoId
        /\ ClientDocs(repositories, c) # <<>>

\* C17: an UPDATE_REPOSITORY whose repository_id names no repository of the
\* client is answered with REPOSITORY_ACTION_ERROR and writes nothing: no
\* record is created and none is modified
C17_UnknownUpdateRejected ==
    [][\A c \in Clients :
          (/\ pc[c] = "up_add"
           /\ get_repository(repositories, c, frame[c].repository_id) = <<>>) =>
             /\ repositories' = repositories
             /\ Delivers(c)' =>
                  /\ sent'[c] # <<>>
                  /\ sent'[c][Len(sent'[c])].type = "REPOSITORY_ACTION_ERROR"]_vars

ListEvents == {"GITHUB_ISSUES_LIST", "GITHUB_BRANCHES_LIST", "GITHUB_PULL_REQUESTS_LIST"}

\* C18: when GET_ISSUES, GET_BRANCHES or GET_PULL_REQUESTS names a repository
\* the client does not have, the handler ends with GITHUB_ACTION_ERROR and
\* sends no list event
C18_MissingRepositoryGivesError ==
    [][\A c \in Clients :
          (/\ pc[c] \in {"gi_get", "gi_refind", "gb_find", "gp_find"}
           /\ get_repository(repositories, c, frame[c].repository_id) = <<>>
           /\ pc'[c] = "recv"
           /\ Delivers(c)) =>
             /\ \A k \in DOMAIN sent'[c] : sent'[c][k].type \notin ListEvents
             /\ \E k \in DOMAIN sent'[c] : sent'[c][k].type = "GITHUB_ACTION_ERROR"]_vars

\* C19: SUBMIT_CONFIG selects the first listed repository and goes on to the
\* file-tree fetch only when the session had nothing selected; with a
\* repository already selected the selection stays and no fetch is started
C19_SubmitKeepsSelection ==
    [][\A c \in Clients :
          /\ (/\ pc[c] = "sc_list" /\ pc'[c] \in {"sc_get", "recv"}
              /\ selected_repositories[c] # NoId) =>
                /\ selected_repositories'[c] = selected_repositories[c]
                /\ pc'[c] = "recv"
          /\ (pc[c] = "sc_list" /\ pc'[c] = "sc_get") =>
                selected_repositories'[c] = get_repositories(repositories, c)[1].id]_vars

\* the events of the given types among evs
OfTypes(evs, types) == SelectSeq(evs, LAMBDA e : e.type \in types)

\* C20: a finished SUBMIT_CONFIG has exactly one of CONFIG_SUCCESS and
\* CONFIG_ERROR, as its last event, and CONFIG_SUCCESS only when no step
\* failed: the configuration is stored, the list sent is the client's whole
\* list, and the cascaded fetch reported no error
C20_SuccessMeansAllSteps ==
    \A c \in Clients :
        (Finished(c, "SUBMIT_CONFIG") /\ sent[c] # <<>>) =>
            /\ Len(OfTypes(sent[c], {"CONFIG_SUCCESS", "CONFIG_ERROR"})) = 1
            /\ sent[c][Len(sent[c])].type \in {"CONFIG_SUCCESS", "CONFIG_ERROR"}
            /\ sent[c][Len(sent[c])] = ConfigSuccess =>
                 /\ connections[c].exists => connections[c].config = frame[c].geminiToken
                 /\ OfTypes(sent[c], {"FILE_TREE_ERROR"}) = <<>>
                 /\ \A k \in DOMAIN sent[c] :
                       sent[c][k].type = "REPOSITORIES_LIST" =>
                          sent[c][k] = RepositoriesList(get_repositories(repositories, c))

\* C21: a FETCH_FILES frame without a repository id, or with an id that names
\* no repository of the client, is answered with FILE_TREE_ERROR and nothing
\* else (no typing-on before it), goes to no repository-host call and leaves
\* the selection as it was
C21_UnresolvedFetchOnlyError ==
    [][\A c \in Clients :
          /\ (/\ recvd'[c] # recvd[c]
              /\ frame'[c].type = "FETCH_FILES"
              /\ frame'[c].repository_id = NoId) =>
                /\ Len(sent'[c]) = 1
                /\ sent'[c][1].type = "FILE_TREE_ERROR"
                /\ selected_repositories' = selected_repositories
                /\ pc'[c] = "recv"
          /\ (/\ pc[c] = "ff_get"
              /\ frame[c].type = "FETCH_FILES"
              /\ get_repository(repositories, c, frame[c].repository_id) = <<>>
              /\ Delivers(c)) =>
                /\ Len(sent'[c]) = 1
                /\ sent'[c][1].type = "FILE_TREE_ERROR"
                /\ selected_repositories' = selected_repositories
                /\ pc'[c] = "recv"]_vars

\* the action name a REPOSITORY_ACTION_SUCCESS carries for a frame type
ActionOf(type) ==
    CASE type = "ADD_REPOSITORY" -> "add"
      [] type = "UPDATE_REPOSITORY" -> "update"
      [] type = "DELETE_REPOSITORY" -> "delete"
      [] type = "SELECT_REPOSITORY" -> "select"
      [] OTHER -> "none"

\* in evs a REPOSITORY_ACTION_SUCCESS for action a is directly followed by a
\* REPOSITORIES_LIST that carries list
SuccessThenList(evs, a, list) ==
    \E i \in DOMAIN evs :
        /\ evs[i].type = "REPOSITORY_ACTION_SUCCESS"
        /\ evs[i].action = a
        /\ i + 1 \in DOMAIN evs
        /\ evs[i + 1] = RepositoriesList(list)

\* the add, update and delete part of C22
AddUpdateDeleteListed ==
    \A c \in Clients :
        (/\ frame[c].type \in ListActions
         /\ pc[c] = "recv" /\ Delivers(c)
         /\ \E i \in DOMAIN sent[c] : sent[c][i].type = "REPOSITORY_ACTION_SUCCESS") =>
            SuccessThenList(sent[c], ActionOf(frame[c].type), get_repositories(repositories, c))

\* C22: a finished add, update, delete or select that succeeded has sent
\* REPOSITORY_ACTION_SUCCESS naming its action and, right after it,
\* REPOSITORIES_LIST with the client's refreshed list; a select of a stored
\* repository succeeds
C22_SuccessThenList ==
    /\ AddUpdateDeleteListed
    /\ \A c \in Clients :
          (/\ Finished(c, "SELECT_REPOSITORY")
           /\ get_repository(repositories, c, frame[c].repository_id) # <<>>) =>
              SuccessThenList(sent[c], "select", get_repositories(repositories, c))

\* C23: while a handler of c is suspended and the client's transport is
\* closed, a send to c raises nothing and delivers nothing, and the handler
\* goes on as it would have: after the write of an add or update it still
\* reads the refreshed list
C23_ClosedSendsDropped ==
    [][\A c \in Clients :
          (InHandler(c) /\ transport[c] # "open") =>
             /\ ~Raises(c)
             /\ Deliver(c, <<Pong>>) = sent[c]
             /\ (pc[c] \in {"ad_add", "up_add"} /\ repositories' # repositories) =>
                   pc'[c] \in {"ad_list", "up_list"}]_vars

\* C24: once the loop of an opened session c has called disconnect, c is in
\* neither the connection table nor the selection table; the stored
\* connection record of c becomes inactive once the scheduled task has run,
\* and nothing marks it active again
C24_ClosedBecomesInactive ==
    /\ [](\A c \in Clients :
             pc[c] = "closed" => c \notin active_connections /\ selected_repositories[c] = NoId)
    /\ \A c \in Clients : (pc[c] = "closed") ~> ~connections[c].active
    /\ [][\A c \in Clients :
             (pc[c] = "closed" /\ ~connections[c].active) => ~connections'[c].active]_vars

C24_ClosedAfterSelection ==
    \E c \in Clients :
        /\ pc[c] = "closed"
        /\ recvd[c] > 0
        /\ repositories # <<>>
        /\ connections[c].exists /\ ~connections[c].active
        /\ c \notin pending_remove

\* C25: when the agent is called for a chat message, the context holds the
\* client's stored configuration and, when the selected repository is stored,
\* that repository's descriptor without its token
C25_ContextSanitized ==
    \A c \in Clients :
        pc[c] = "ch_ai" =>
            /\ connections[c].exists => loc[c].config = connections[c].config
            /\ \A k \in DOMAIN loc[c].ctxRepo : "token" \notin DOMAIN loc[c].ctxRepo[k]
            /\ LET stored == get_repository(repositories, c, selected_repositories[c])
               IN stored # <<>> => loc[c].ctxRepo = <<PopToken(stored[1])>>

\* C26: a finished FETCH_FILES whose tree listing worked has sent typing-on,
\* then FILE_TREE_DATA with the tree of the repository's branch and the
\* repository's id, name and branch without the token, then typing-off, and
\* the repository is the selected one
C26_FetchSequence ==
    \A c \in Clients :
        (/\ Finished(c, "FETCH_FILES")
         /\ \E k \in DOMAIN sent[c] : sent[c][k].type = "FILE_TREE_DATA") =>
            LET R == get_repository(repositories, c, frame[c].repository_id)
            IN /\ R # <<>>
               /\ sent[c] = <<Typing(TRUE),
                              [type |-> "FILE_TREE_DATA", tree |-> TreeOf(R[1]),
                               repository |-> <<[id |-> R[1].id, name |-> R[1].name,
                                                branch |-> R[1].branch]>>],
                              Typing(FALSE)>>
               /\ selected_repositories[c] = frame[c].repository_id

C26_SecondFetchDone ==
    \E c \in Clients :
        /\ Finished(c, "FETCH_FILES")
        /\ recvd[c] = 2
        /\ Len(sent[c]) = 3
        /\ sent[c][2].type = "FILE_TREE_DATA"
        /\ sent[c][2].repository[1].branch = "dev"

\* C27: handle_fetch_files changes the selection only once the repository
\* host has returned the tree: the step that resolves the descriptor leaves
\* the selection alone, and a failed tree listing ends in FILE_TREE_ERROR
\* with the selection the session had when the frame arrived
C27_SelectAfterTree ==
    [][\A c \in Clients :
          /\ (pc[c] = "ff_get" /\ frame[c].type = "FETCH_FILES") =>
                selected_repositories'[c] = selected_repositories[c]
          /\ (/\ pc[c] = "ff_tree" /\ pc'[c] = "recv" /\ Delivers(c)
              /\ frame[c].type = "FETCH_FILES"
              /\ \A k \in DOMAIN sent'[c] : sent'[c][k].type # "FILE_TREE_DATA") =>
                /\ sent'[c][Len(sent'[c])].type = "FILE_TREE_ERROR"
                /\ selected_repositories'[c] = selected_repositories[c]]_vars

\* C28: when a handler has returned, every typing-on it sent to the session
\* is followed by a typing-off
C28_TypingTurnedOff ==
    \A c \in Clients :
        (pc[c] = "recv" /\ Delivers(c)) =>
            \A i \in DOMAIN sent[c] :
                sent[c][i] = Typing(TRUE) =>
                    \E j \in DOMAIN sent[c] : j > i /\ sent[c][j] = Typing(FALSE)

\* C29: SUBMIT_CONFIG writes a descriptor to the store only after
\* validate_repository has accepted that descriptor
C29_SubmitValidates ==
    [][\A c \in Clients :
          (/\ frame[c].type = "SUBMIT_CONFIG"
           /\ pc[c] = "sc_add"
           /\ repositories' # repositories) => loc[c].is_valid]_vars

\* C30: when the upsert of the k-th descriptor of a SUBMIT_CONFIG fails, the
\* handler stops there: the stored configuration and the descriptors 1..k-1
\* stay as written, no later descriptor is processed, no REPOSITORIES_LIST is
\* sent, CONFIG_ERROR is, and the selection is unchanged
C30_SubmitBestEffort ==
    [][\A c \in Clients :
          (pc[c] = "sc_add" /\ faults' # faults) =>
             /\ pc'[c] = "recv"
             /\ connections' = connections
             /\ repositories' = repositories
             /\ \A j \in 1..(loc[c].i - 1) :
                   \E k \in DOMAIN repositories' :
                       MatchesName(repositories'[k], c, frame[c].repositories[j].name)
             /\ selected_repositories' = selected_repositories
             /\ \A k \in DOMAIN sent'[c] : sent'[c][k].type # "REPOSITORIES_LIST"
             /\ Delivers(c) => sent'[c] = <<ConfigError("add_repository")>>]_vars

C30_SecondUpsertFailed ==
    \E c \in Clients :
        /\ Finished(c, "SUBMIT_CONFIG")
        /\ sent[c] = <<ConfigError("add_repository")>>
        /\ Len(frame[c].repositories) = 2
        /\ Len(repositories) = 1
        /\ repositories[1].name = frame[c].repositories[1].name
        /\ connections[c].config = frame[c].geminiToken

\* C31: a finished SUBMIT_CONFIG that ended in CONFIG_SUCCESS has sent the
\* client's whole repository list before it, with or without descriptors in
\* the payload, and a client that has stored repositories has one selected
C31_SubmitAlwaysLists ==
    \A c \in Clients :
        (/\ Finished(c, "SUBMIT_CONFIG")
         /\ sent[c] # <<>>
         /\ sent[c][Len(sent[c])] = ConfigSuccess) =>
            /\ \E k \in 1..(Len(sent[c]) - 1) :
                  sent[c][k] = RepositoriesList(get_repositories(repositories, c))
            /\ get_repositories(repositories, c) # <<>> => selected_repositories[c] # NoId

\* C32: a SELECT_REPOSITORY frame without a repository id, or with an id that
\* names no repository of the client, is answered with REPOSITORY_ACTION_ERROR
\* alone, returns at once (no fetch is cascaded) and leaves the selection
C32_BadSelectRejected ==
    [][\A c \in Clients :
          (/\ recvd'[c] # recvd[c]
           /\ frame'[c].type = "SELECT_REPOSITORY"
           /\ \/ frame'[c].repository_id = NoId
              \/ get_repository(repositories, c, frame'[c].repository_id) = <<>>) =>
             /\ Len(sent'[c]) = 1
             /\ sent'[c][1].type = "REPOSITORY_ACTION_ERROR"
             /\ pc'[c] = "recv"
             /\ selected_repositories' = selected_repositories
             /\ repositories' = repositories]_vars

C32_UnknownSelectWhileSelected ==
    \E c \in Clients :
        /\ Finished(c, "SELECT_REPOSITORY")
        /\ frame[c].repository_id = UnknownId
        /\ Len(sent[c]) = 1
        /\ sent[c][1].type = "REPOSITORY_ACTION_ERROR"
        /\ selected_repositories[c] # NoId

\* the frame lacks a payload field its handler requires
MissingRequired(f) ==
    \/ /\ f.type \in {"FETCH_FILES", "DELETE_REPOSITORY", "SELECT_REPOSITORY", "GET_ISSUES",
                      "GET_BRANCHES", "GET_PULL_REQUESTS"}
       /\ f.repository_id = NoId
    \/ f.type = "ADD_REPOSITORY" /\ f.repository = <<>>
    \/ f.type = "UPDATE_REPOSITORY" /\ (f.repository_id = NoId \/ f.repository = <<>>)
    \/ f.type = "PUSH_FILES" /\ (f.repository_id = NoId \/ f.files = <<>> \/ f.commit_message = "")

\* the error event of each operation
ErrorEventOf(type) ==
    IF type = "FETCH_FILES" THEN "FILE_TREE_ERROR"
    ELSE IF type \in {"ADD_REPOSITORY", "UPDATE_REPOSITORY", "DELETE_REPOSITORY",
                      "SELECT_REPOSITORY"} THEN "REPOSITORY_ACTION_ERROR"
    ELSE "GITHUB_ACTION_ERROR"

\* C33: receiving a frame that lacks a required payload field reads and writes
\* nothing persisted, calls neither the repository host nor the agent, and
\* sends exactly the operation's error event
C33_MissingFieldOnlyError ==
    [][\A c \in Clients :
          (recvd'[c] # recvd[c] /\ MissingRequired(frame'[c])) =>
             /\ sent'[c] # <<>>
             /\ sent'[c][1].type = ErrorEventOf(frame'[c].type)
             /\ Len(sent'[c]) = 1
             /\ pc'[c] = "recv"
             /\ UNCHANGED <<connections, repositories, messages, selected_repositories,
                            faults, hostVars>>]_vars

\* the last n messages of the client's conversation (fewer when it is shorter)
LastMessages(c, n) ==
    LET ms == MessagesOf(c)
    IN SubSeq(ms, IF Len(ms) > n THEN Len(ms) - n + 1 ELSE 1, Len(ms))

\* the senders of a sequence of messages
Senders(ms) == [i \in DOMAIN ms |-> ms[i].sender]

\* C34: the message log only grows at its end; while the agent is being asked
\* the user's message is the last one stored for the client, and once the
\* handler of a non-empty chat frame is over the client's log ends with that
\* user message followed by exactly one reply, from the agent or the system
C34_AppendOnlyOneReply ==
    [][/\ Len(messages') >= Len(messages)
       /\ SubSeq(messages', 1, Len(messages)) = messages
       /\ \A c \in Clients :
             /\ pc'[c] = "ch_ai" =>
                   LastMessages(c, 1)' = <<Message(c, "user", frame'[c].text)>>
             /\ (pc[c] \in LabelsOf("SEND_CHAT_MESSAGE") /\ ~InHandler(c)') =>
                   /\ Len(LastMessages(c, 3)') >= 2
                   /\ Senders(LastMessages(c, 2)') \in {<<"user", "agent">>, <<"user", "system">>}]_vars

\* C35: the message of every NEW_CHAT_MESSAGE event sent to a client is in
\* the stored message log of that client, also after a failed write
C35_SentMessageStored ==
    \A c \in Clients :
        \A i \in DOMAIN sent[c] :
            sent[c][i].type = "NEW_CHAT_MESSAGE" =>
                \E k \in DOMAIN messages : messages[k] = sent[c][i].payload

\* C36: no two stored repository records of one client have the same id
C36_IdsUniquePerClient ==
    \A i, j \in DOMAIN repositories :
        (i # j /\ repositories[i].client_id = repositories[j].client_id) =>
            repositories[i].id # repositories[j].id

\* C37: every client id with an entry in the selected-repository table is in
\* the live connection table
C37_SelectedAreLive ==
    \A c \in Clients : selected_repositories[c] # NoId => c \in active_connections

\* a session that fetched a stored repository, and so had it selected, is closed
C37_ClosedAfterSelecting ==
    \E c \in Clients :
        /\ pc[c] = "closed"
        /\ c \notin active_connections
        /\ frame[c].type = "FETCH_FILES"
        /\ get_repository(repositories, c, frame[c].repository_id) # <<>>
        /\ faults = 0
        /\ selected_repositories[c] = NoId

\* C38: the step of handle_add_repository that follows a stored add sends the
\* REPOSITORIES_LIST; with nothing selected it selects the added repository
\* and starts its file-tree fetch after the list, with a repository selected
\* it returns with the selection as it was; no other step of the handler
\* changes the selection
C38_AddSelectsOnlyWhenNone ==
    [][\A c \in Clients :
          /\ (pc[c] = "ad_list" /\ pc'[c] # "ad_list" /\ ~Raises(c)) =>
                IF selected_repositories[c] = NoId
                THEN /\ selected_repositories'[c] = loc[c].repo[1].id
                     /\ pc'[c] = "ff_get"
                     /\ loc'[c].fid = loc[c].repo[1].id
                     /\ Delivers(c) =>
                           /\ Len(sent'[c]) = Len(sent[c]) + 2
                           /\ sent'[c][Len(sent[c]) + 1].type = "REPOSITORIES_LIST"
                           /\ sent'[c][Len(sent[c]) + 2] = Typing(TRUE)
                ELSE /\ selected_repositories' = selected_repositories
                     /\ pc'[c] = "recv"
                     /\ Delivers(c) =>
                           /\ Len(sent'[c]) = Len(sent[c]) + 1
                           /\ sent'[c][Len(sent[c]) + 1].type = "REPOSITORIES_LIST"
          /\ (frame[c].type = "ADD_REPOSITORY" /\ InHandler(c)
              /\ selected_repositories'[c] # selected_repositories[c]) =>
                /\ pc[c] = "ad_list"
                /\ selected_repositories[c] = NoId]_vars

\* a second repository was added while the first stayed selected: the answer
\* ends with the list and no fetch followed
C38_AddedWhileSelected ==
    \E c \in Clients :
        /\ Finished(c, "ADD_REPOSITORY")
        /\ Len(sent[c]) = 2
        /\ sent[c][1].type = "REPOSITORY_ACTION_SUCCESS"
        /\ sent[c][2].type = "REPOSITORIES_LIST"
        /\ selected_repositories[c] # NoId
        /\ selected_repositories[c] # sent[c][1].repository.id

\* the documents of a mirror collection that have the key of doc
OfKey(coll, doc) == SelectSeq(coll, LAMBDA d : SameKey(d, doc))

\* the documents of a mirror collection that have another key
OfOtherKeys(coll, doc) == SelectSeq(coll, LAMBDA d : ~SameKey(d, doc))

====
